---- MODULE Spec2Model ----
(***************************************************************************)
(* The Author/Book CRUD service of src/app.py as a state machine.          *)
(*                                                                         *)
(* The store is two tables, author and book.  A request handler is one     *)
(* action under Spec (requests run to completion one after another) and    *)
(* the handlers add_book and delete_author are also split at their         *)
(* database round trips under SpecConc (two requests in flight, each on    *)
(* its own session).                                                       *)
(***************************************************************************)
EXTENDS Integers, FiniteSets

(* Bounds of the model. *)
MaxAuthorIds == 2
MaxBookIds == 2

(* Request parameters: name and title are arbitrary text (the empty string *)
(* included); an id parameter is text that is either an identifier the     *)
(* store generated at some time, or (0) one it never generated.            *)
Names == {"", "Tolkien"}
Titles == {"The Hobbit", "Roverandom"}
AuthorIdParams == 0..MaxAuthorIds
BookIdParams == 0..MaxBookIds

VARIABLES
    author,          \* table author: rows [id, name]
    book,            \* table book: rows [id, title, author_id]
    issued_authors,  \* how many author ids the store has generated
    issued_books,    \* how many book ids the store has generated
    response,        \* the last completed request and what it returned
    tx,              \* the unit of work of the last commit
    add_book_req,    \* SpecConc: the add_book request in flight
    delete_author_req \* SpecConc: the delete_author request in flight

vars == <<author, book, issued_authors, issued_books, response, tx,
          add_book_req, delete_author_req>>

store == <<author, book>>

(* Python's None is the empty set and a returned object x is {x}. *)
None == {}

NoTx == [new |-> {}, dirty |-> {}, deleted |-> {}]

Idle == [pc |-> "idle"]

-----------------------------------------------------------------------------
(* The entities and the session's reads. *)

(* Author.books, loaded with the author (lazy="selectin"): the book rows   *)
(* whose author_id is the author's id.                                     *)
AuthorBooks(books, a) == {b \in books : b.author_id = a.id}

(* An Author as a handler returns it: its columns and its books.           *)
Author(books, a) == [id |-> a.id, name |-> a.name, books |-> AuthorBooks(books, a)]

(* Mutant: the join of book and author without its ON condition.           *)
Book_cross_join(authors, b) ==
    {[id |-> b.id, title |-> b.title, author_id |-> b.author_id,
      author |-> [id |-> a.id, name |-> a.name]] : a \in authors}

(* A Book as a handler returns it: its columns and Book.author, the inner  *)
(* join of the book row with the author row it references.  There is one   *)
(* object per joined row, so none when no author row matches.              *)
Book(authors, b) ==
    {[id |-> b.id, title |-> b.title, author_id |-> b.author_id,
      author |-> [id |-> a.id, name |-> a.name]] : a \in {x \in authors : x.id = b.author_id}}

(* db_session.get(Author, author_id): the row with that primary key.       *)
GetAuthorRow(authors, author_id) == {a \in authors : a.id = author_id}

(* db_session.get(Book, book_id): the row with that primary key.           *)
GetBookRow(books, book_id) == {b \in books : b.id = book_id}

SessionGetAuthor(authors, books, author_id) ==
    {Author(books, a) : a \in GetAuthorRow(authors, author_id)}

SessionGetBook(authors, books, book_id) ==
    UNION {Book(authors, b) : b \in GetBookRow(books, book_id)}

(* Mutant: the relationship without cascade="all, delete".                 *)
CascadeDelete_none(books, a) == {}

(* The rows a session deletes for db_session.delete(author): the author    *)
(* row and, by cascade="all, delete", the rows of its loaded books.        *)
CascadeDelete(books, a) == AuthorBooks(books, a)

(* The identifier the store generates for the n-th inserted row. *)
GeneratedId(issued) == issued + 1

Response(op, args, raised, ret) == [op |-> op, args |-> args, raised |-> raised, ret |-> ret]

HTTPException(msg, status_code) == {[status_code |-> status_code, detail |-> msg]}

-----------------------------------------------------------------------------
Init ==
    /\ author = {}
    /\ book = {}
    /\ issued_authors = 0
    /\ issued_books = 0
    /\ response = Response("on_startup", [none |-> 0], None, None)
    /\ tx = NoTx
    /\ add_book_req = Idle
    /\ delete_author_req = Idle

-----------------------------------------------------------------------------
(* The handlers, each run to completion. *)

(* Mutant: an empty name is replaced by a default.                         *)
add_author_default_name(name) ==
    /\ issued_authors < MaxAuthorIds
    /\ LET row == [id |-> GeneratedId(issued_authors),
                   name |-> IF name = "" THEN "Tolkien" ELSE name] IN
        /\ author' = author \cup {row}
        /\ issued_authors' = issued_authors + 1
        /\ tx' = [NoTx EXCEPT !.new = {row}]
        /\ response' = Response("add_author", [name |-> name], None,
                                SessionGetAuthor(author', book, row.id))
    /\ UNCHANGED <<book, issued_books, add_book_req, delete_author_req>>

add_author(name) ==
    /\ issued_authors < MaxAuthorIds
    /\ LET row == [id |-> GeneratedId(issued_authors), name |-> name] IN
        /\ author' = author \cup {row}
        /\ issued_authors' = issued_authors + 1
        /\ tx' = [NoTx EXCEPT !.new = {row}]
        /\ response' = Response("add_author", [name |-> name], None,
                                SessionGetAuthor(author', book, row.id))
    /\ UNCHANGED <<book, issued_books, add_book_req, delete_author_req>>

(* Mutant: the book is inserted without looking the author up.             *)
add_book_unchecked(title, author_id) ==
    /\ issued_books < MaxBookIds
    /\ LET row == [id |-> GeneratedId(issued_books), title |-> title, author_id |-> author_id]
       IN  /\ book' = book \cup {row}
           /\ issued_books' = issued_books + 1
           /\ tx' = [NoTx EXCEPT !.new = {row}]
           /\ response' = Response("add_book", [title |-> title, author_id |-> author_id], None,
                                   SessionGetBook(author, book', row.id))
    /\ UNCHANGED <<author, issued_authors, add_book_req, delete_author_req>>

add_book(title, author_id) ==
    LET found == GetAuthorRow(author, author_id) IN
    IF found = None
    THEN /\ response' = Response("add_book", [title |-> title, author_id |-> author_id], None, None)
         /\ tx' = NoTx
         /\ UNCHANGED <<author, book, issued_authors, issued_books, add_book_req, delete_author_req>>
    ELSE /\ issued_books < MaxBookIds
         /\ LET a == CHOOSE a \in found : TRUE
                row == [id |-> GeneratedId(issued_books), title |-> title, author_id |-> a.id]
            IN  /\ book' = book \cup {row}
                /\ issued_books' = issued_books + 1
                /\ tx' = [NoTx EXCEPT !.new = {row}]
                /\ response' = Response("add_book", [title |-> title, author_id |-> author_id], None,
                                        SessionGetBook(author, book', row.id))
         /\ UNCHANGED <<author, issued_authors, add_book_req, delete_author_req>>

get_authors ==
    /\ response' = Response("get_authors", [none |-> 0], None, {Author(book, a) : a \in author})
    /\ tx' = NoTx
    /\ UNCHANGED <<author, book, issued_authors, issued_books, add_book_req, delete_author_req>>

get_books ==
    /\ response' = Response("get_books", [none |-> 0], None, UNION {Book(author, b) : b \in book})
    /\ tx' = NoTx
    /\ UNCHANGED <<author, book, issued_authors, issued_books, add_book_req, delete_author_req>>

get_author(author_id) ==
    /\ response' = Response("get_author", [author_id |-> author_id], None,
                            SessionGetAuthor(author, book, author_id))
    /\ tx' = NoTx
    /\ UNCHANGED <<author, book, issued_authors, issued_books, add_book_req, delete_author_req>>

get_book(book_id) ==
    /\ response' = Response("get_book", [book_id |-> book_id], None,
                            SessionGetBook(author, book, book_id))
    /\ tx' = NoTx
    /\ UNCHANGED <<author, book, issued_authors, issued_books, add_book_req, delete_author_req>>

(* Mutant: an unknown author is inserted instead of ignored.               *)
update_author_upsert(author_id, name) ==
    /\ author' = {a \in author : a.id # author_id} \cup {[id |-> author_id, name |-> name]}
    /\ tx' = [NoTx EXCEPT !.dirty = {[id |-> author_id, name |-> name]}]
    /\ response' = Response("update_author", [author_id |-> author_id, name |-> name], None,
                            SessionGetAuthor(author', book, author_id))
    /\ UNCHANGED <<book, issued_authors, issued_books, add_book_req, delete_author_req>>

update_author(author_id, name) ==
    LET found == GetAuthorRow(author, author_id) IN
    /\ IF found # None
       THEN LET a == CHOOSE a \in found : TRUE
                row == [a EXCEPT !.name = name]
            IN  /\ author' = (author \ {a}) \cup {row}
                /\ tx' = [NoTx EXCEPT !.dirty = {row}]
       ELSE /\ author' = author
            /\ tx' = NoTx
    /\ response' = Response("update_author", [author_id |-> author_id, name |-> name], None,
                            SessionGetAuthor(author', book, author_id))
    /\ UNCHANGED <<book, issued_authors, issued_books, add_book_req, delete_author_req>>

(* Mutant: the title is written to every book once the book is found.      *)
update_book_all_rows(book_id, title) ==
    LET found == GetBookRow(book, book_id) IN
    /\ IF found # None
       THEN /\ book' = {[b EXCEPT !.title = title] : b \in book}
            /\ tx' = [NoTx EXCEPT !.dirty = book']
       ELSE /\ book' = book
            /\ tx' = NoTx
    /\ response' = Response("update_book", [book_id |-> book_id, title |-> title], None,
                            SessionGetBook(author, book', book_id))
    /\ UNCHANGED <<author, issued_authors, issued_books, add_book_req, delete_author_req>>

update_book(book_id, title) ==
    LET found == GetBookRow(book, book_id) IN
    /\ IF found # None
       THEN LET b == CHOOSE b \in found : TRUE
                row == [b EXCEPT !.title = title]
            IN  /\ book' = (book \ {b}) \cup {row}
                /\ tx' = [NoTx EXCEPT !.dirty = {row}]
       ELSE /\ book' = book
            /\ tx' = NoTx
    /\ response' = Response("update_book", [book_id |-> book_id, title |-> title], None,
                            SessionGetBook(author, book', book_id))
    /\ UNCHANGED <<author, issued_authors, issued_books, add_book_req, delete_author_req>>

(* Mutant: the cascade deletes every book, not only the author's.          *)
delete_author_all_books(author_id) ==
    LET found == GetAuthorRow(author, author_id) IN
    /\ IF found = None
       THEN /\ response' = Response("delete_author", [author_id |-> author_id],
                                    HTTPException("Unknown author_id", 400), None)
            /\ tx' = NoTx
            /\ UNCHANGED <<author, book>>
       ELSE /\ author' = author \ found
            /\ book' = {}
            /\ tx' = [NoTx EXCEPT !.deleted = found \cup book]
            /\ response' = Response("delete_author", [author_id |-> author_id], None, None)
    /\ UNCHANGED <<issued_authors, issued_books, add_book_req, delete_author_req>>

delete_author(author_id) ==
    LET found == GetAuthorRow(author, author_id) IN
    /\ IF found = None
       THEN /\ response' = Response("delete_author", [author_id |-> author_id],
                                    HTTPException("Unknown author_id", 400), None)
            /\ tx' = NoTx
            /\ UNCHANGED <<author, book>>
       ELSE LET a == CHOOSE a \in found : TRUE IN
            /\ author' = author \ {a}
            /\ book' = book \ CascadeDelete(book, a)
            /\ tx' = [NoTx EXCEPT !.deleted = {a} \cup CascadeDelete(book, a)]
            /\ response' = Response("delete_author", [author_id |-> author_id], None, None)
    /\ UNCHANGED <<issued_authors, issued_books, add_book_req, delete_author_req>>

(* Mutant: an unknown book is ignored instead of refused.                  *)
delete_book_silent(book_id) ==
    LET found == GetBookRow(book, book_id) IN
    /\ book' = book \ found
    /\ tx' = [NoTx EXCEPT !.deleted = found]
    /\ response' = Response("delete_book", [book_id |-> book_id], None, None)
    /\ UNCHANGED <<author, issued_authors, issued_books, add_book_req, delete_author_req>>

(* Mutant: the book's author is deleted with it.                           *)
delete_book_and_author(book_id) ==
    LET found == GetBookRow(book, book_id) IN
    /\ IF found = None
       THEN /\ response' = Response("delete_book", [book_id |-> book_id],
                                    HTTPException("Unknown book_id", 400), None)
            /\ tx' = NoTx
            /\ UNCHANGED <<author, book>>
       ELSE LET owners == {a \in author : \E b \in found : b.author_id = a.id} IN
            /\ author' = author \ owners
            /\ book' = {b \in book : \A a \in owners : b.author_id # a.id}
            /\ tx' = [NoTx EXCEPT !.deleted = found \cup owners]
            /\ response' = Response("delete_book", [book_id |-> book_id], None, None)
    /\ UNCHANGED <<issued_authors, issued_books, add_book_req, delete_author_req>>

delete_book(book_id) ==
    LET found == GetBookRow(book, book_id) IN
    /\ IF found = None
       THEN /\ response' = Response("delete_book", [book_id |-> book_id],
                                    HTTPException("Unknown book_id", 400), None)
            /\ tx' = NoTx
            /\ UNCHANGED book
       ELSE /\ book' = book \ found
            /\ tx' = [NoTx EXCEPT !.deleted = found]
            /\ response' = Response("delete_book", [book_id |-> book_id], None, None)
    /\ UNCHANGED <<author, issued_authors, issued_books, add_book_req, delete_author_req>>

Next ==
    \/ \E name \in Names : add_author(name)
    \/ \E title \in Titles, author_id \in AuthorIdParams : add_book(title, author_id)
    \/ get_authors
    \/ get_books
    \/ \E author_id \in AuthorIdParams : get_author(author_id)
    \/ \E book_id \in BookIdParams : get_book(book_id)
    \/ \E author_id \in AuthorIdParams, name \in Names : update_author(author_id, name)
    \/ \E book_id \in BookIdParams, title \in Titles : update_book(book_id, title)
    \/ \E author_id \in AuthorIdParams : delete_author(author_id)
    \/ \E book_id \in BookIdParams : delete_book(book_id)

Spec == Init /\ [][Next]_vars

-----------------------------------------------------------------------------
(* add_book and delete_author in flight together, each on its own session  *)
(* and each split where the handler awaits the database.  A session keeps  *)
(* the objects it has loaded; the store checks nothing on INSERT or DELETE *)
(* beyond the primary key: the engine is configured by the connection      *)
(* string alone, and sqlite leaves foreign keys unenforced on such a       *)
(* connection.                                                             *)

(* add_book, up to the point where it has the author (or returns None).    *)
add_book_lookup(title, author_id) ==
    /\ add_book_req.pc = "idle"
    /\ LET found == GetAuthorRow(author, author_id) IN
       IF found = None
       THEN /\ response' = Response("add_book", [title |-> title, author_id |-> author_id], None, None)
            /\ tx' = NoTx
            /\ UNCHANGED add_book_req
       ELSE /\ issued_books < MaxBookIds
            /\ add_book_req' = [pc |-> "commit", title |-> title, author_id |-> author_id,
                                author |-> CHOOSE a \in found : TRUE]
            /\ UNCHANGED <<response, tx>>
    /\ UNCHANGED <<author, book, issued_authors, issued_books, delete_author_req>>

(* db_session.add(book); await db_session.commit()                         *)
add_book_commit ==
    /\ add_book_req.pc = "commit"
    /\ LET row == [id |-> GeneratedId(issued_books), title |-> add_book_req.title,
                   author_id |-> add_book_req.author.id]
       IN  /\ book' = book \cup {row}
           /\ issued_books' = issued_books + 1
           /\ tx' = [NoTx EXCEPT !.new = {row}]
           /\ add_book_req' = [pc |-> "refresh", title |-> add_book_req.title,
                               author_id |-> add_book_req.author_id, book_id |-> row.id]
    /\ UNCHANGED <<author, issued_authors, response, delete_author_req>>

(* await db_session.refresh(book); return book.  The refresh selects the   *)
(* book joined with its author and fails when that yields no row.          *)
add_book_refresh ==
    /\ add_book_req.pc = "refresh"
    /\ LET loaded == SessionGetBook(author, book, add_book_req.book_id)
           args == [title |-> add_book_req.title, author_id |-> add_book_req.author_id]
       IN  response' = IF loaded = None
                       THEN Response("add_book", args, {[status_code |-> 500, detail |-> "refresh"]}, None)
                       ELSE Response("add_book", args, None, loaded)
    /\ add_book_req' = Idle
    /\ UNCHANGED <<author, book, issued_authors, issued_books, tx, delete_author_req>>

(* delete_author, up to the point where it has the author and its books    *)
(* (or raises).                                                            *)
delete_author_lookup(author_id) ==
    /\ delete_author_req.pc = "idle"
    /\ LET found == GetAuthorRow(author, author_id) IN
       IF found = None
       THEN /\ response' = Response("delete_author", [author_id |-> author_id],
                                    HTTPException("Unknown author_id", 400), None)
            /\ tx' = NoTx
            /\ UNCHANGED delete_author_req
       ELSE LET a == CHOOSE a \in found : TRUE IN
            /\ delete_author_req' = [pc |-> "delete", author_id |-> author_id,
                                     author |-> a, books |-> AuthorBooks(book, a)]
            /\ UNCHANGED <<response, tx>>
    /\ UNCHANGED <<author, book, issued_authors, issued_books, add_book_req>>

(* await db_session.delete(author); await db_session.commit(): the author  *)
(* row and the rows of the books the session loaded with it.               *)
delete_author_commit ==
    /\ delete_author_req.pc = "delete"
    /\ LET a == delete_author_req.author
           cascaded == CascadeDelete(delete_author_req.books, a)
       IN  /\ author' = author \ {a}
           /\ book' = book \ cascaded
           /\ tx' = [NoTx EXCEPT !.deleted = {a} \cup cascaded]
    /\ response' = Response("delete_author", [author_id |-> delete_author_req.author_id], None, None)
    /\ delete_author_req' = Idle
    /\ UNCHANGED <<issued_authors, issued_books, add_book_req>>

NextConc ==
    \/ \E name \in Names : add_author(name)
    \/ \E title \in Titles, author_id \in AuthorIdParams : add_book_lookup(title, author_id)
    \/ add_book_commit
    \/ add_book_refresh
    \/ \E author_id \in AuthorIdParams : delete_author_lookup(author_id)
    \/ delete_author_commit

SpecConc == Init /\ [][NextConc]_vars

-----------------------------------------------------------------------------
(* Properties of the handlers run one after another (Spec). *)

StoredAuthorIds == {a.id : a \in author}
StoredBookIds == {b.id : b \in book}

(* C1: every stored Book's author_id is the id of a stored Author.         *)
ReferentialIntegrity ==
    \A b \in book : \E a \in author : a.id = b.author_id

(* A delete_author has cascaded to a book while another author's book      *)
(* stays stored.                                                           *)
ReferentialIntegrityWitness ==
    /\ response.op = "delete_author"
    /\ \E b \in tx.deleted : b \in [id : BookIdParams, title : Titles, author_id : AuthorIdParams]
    /\ book # {}

(* C2: delete_author of a stored author removes that author and exactly    *)
(* its books; get_book on their ids is then null and get_books holds none  *)
(* of them; every other author and book is unchanged.                      *)
CascadeDeleteExact ==
    [][(/\ response'.op = "delete_author"
        /\ response'.args.author_id \in StoredAuthorIds)
       => LET id == response'.args.author_id
              owned == {b \in book : b.author_id = id}
              listed == UNION {Book(author', b) : b \in book'}
          IN  /\ author' = {a \in author : a.id # id}
              /\ book' = book \ owned
              /\ \A b \in owned :
                    /\ SessionGetBook(author', book', b.id) = None
                    /\ \A v \in listed : v.id # b.id]_vars

(* delete_author removed an author and its two books... or one book while  *)
(* another author and that author's book remain.                           *)
CascadeDeleteExactWitness ==
    /\ response.op = "delete_author"
    /\ response.raised = None
    /\ Cardinality(tx.deleted) >= 2
    /\ author # {}
    /\ book # {}

(* C3: delete_author / delete_book of an id that is not stored raises the  *)
(* 400 error "Unknown author_id" / "Unknown book_id" and changes no table. *)
DeleteUnknownRaises ==
    [][/\ (response'.op = "delete_author" /\ response'.args.author_id \notin StoredAuthorIds)
          => /\ response'.raised = {[status_code |-> 400, detail |-> "Unknown author_id"]}
             /\ store' = store
       /\ (response'.op = "delete_book" /\ response'.args.book_id \notin StoredBookIds)
          => /\ response'.raised = {[status_code |-> 400, detail |-> "Unknown book_id"]}
             /\ store' = store]_vars

(* A delete of an unknown id was refused while both tables hold rows.      *)
DeleteUnknownRaisesWitness ==
    /\ response.op \in {"delete_author", "delete_book"}
    /\ response.raised # None
    /\ author # {}
    /\ book # {}

(* C4: update_author / update_book of an id that is not stored returns     *)
(* null, raises nothing and changes no table.                              *)
UpdateUnknownIsNoOp ==
    [][/\ (response'.op = "update_author" /\ response'.args.author_id \notin StoredAuthorIds)
          => /\ response'.ret = None
             /\ response'.raised = None
             /\ store' = store
       /\ (response'.op = "update_book" /\ response'.args.book_id \notin StoredBookIds)
          => /\ response'.ret = None
             /\ response'.raised = None
             /\ store' = store]_vars

(* An update of an unknown id returned null while both tables hold rows.   *)
UpdateUnknownIsNoOpWitness ==
    /\ response.op \in {"update_author", "update_book"}
    /\ response.ret = None
    /\ author # {}
    /\ book # {}

(* C5: add_book with an author_id of no stored author returns null, raises *)
(* nothing and leaves both tables (and the number of books) unchanged.     *)
AddBookUnknownAuthorIsNoOp ==
    [][(response'.op = "add_book" /\ response'.args.author_id \notin StoredAuthorIds)
       => /\ response'.ret = None
          /\ response'.raised = None
          /\ book' = book
          /\ Cardinality(book') = Cardinality(book)
          /\ author' = author]_vars

(* add_book returned null although the store could still take a book and   *)
(* authors and books are stored.                                           *)
AddBookUnknownAuthorIsNoOpWitness ==
    /\ response.op = "add_book"
    /\ response.ret = None
    /\ author # {}
    /\ book # {}
    /\ issued_books < MaxBookIds

(* C6: add_book with the id of a stored author adds exactly one book, with *)
(* an id that was not stored, the given title and the given author; it     *)
(* returns that book with the author's current id and name embedded, and a *)
(* get_book on the new id issued next returns the same book.               *)
AddBookCreatesAndReturns ==
    [][/\ (response'.op = "add_book" /\ response'.args.author_id \in StoredAuthorIds)
          => \E row \in book' :
                /\ row.id \notin StoredBookIds
                /\ book' = book \cup {row}
                /\ row.title = response'.args.title
                /\ row.author_id = response'.args.author_id
                /\ author' = author
                /\ response'.raised = None
                /\ \E a \in author :
                      /\ a.id = response'.args.author_id
                      /\ response'.ret =
                            {[id |-> row.id, title |-> row.title, author_id |-> a.id,
                              author |-> [id |-> a.id, name |-> a.name]]}
       /\ (/\ response.op = "add_book"
           /\ response.ret # None
           /\ response'.op = "get_book"
           /\ \E v \in response.ret : v.id = response'.args.book_id)
          => response'.ret = response.ret]_vars

(* add_book returned a book while two authors are stored.                  *)
AddBookCreatesAndReturnsWitness ==
    /\ response.op = "add_book"
    /\ response.ret # None
    /\ tx.new # {}
    /\ Cardinality(author) = 2
    /\ Cardinality(book) = 2

(* C7: delete_book of a stored book removes that book only: the author     *)
(* table is unchanged, every other book is unchanged, and each author's    *)
(* books are the previous ones minus the deleted book.                     *)
DeleteBookOnly ==
    [][(response'.op = "delete_book" /\ response'.args.book_id \in StoredBookIds)
       => LET gone == {b \in book : b.id = response'.args.book_id} IN
          /\ author' = author
          /\ book' = book \ gone
          /\ \A a \in author :
                {b \in book' : b.author_id = a.id} = {b \in book : b.author_id = a.id} \ gone]_vars

(* delete_book removed a book whose author still owns another book.        *)
DeleteBookOnlyWitness ==
    /\ response.op = "delete_book"
    /\ \E d \in tx.deleted : \E b \in book : b.author_id = d.author_id

(* C8: update_book overwrites the title only, update_author the name only  *)
(* (the author's books stay the same), and no step changes the author_id   *)
(* of a stored book.                                                       *)
UpdateOneScalar ==
    [][/\ (response'.op = "update_book" /\ response'.args.book_id \in StoredBookIds)
          => /\ \E b \in book :
                   /\ b.id = response'.args.book_id
                   /\ book' = (book \ {b}) \cup
                        {[id |-> b.id, title |-> response'.args.title, author_id |-> b.author_id]}
             /\ author' = author
       /\ (response'.op = "update_author" /\ response'.args.author_id \in StoredAuthorIds)
          => /\ \E a \in author :
                   /\ a.id = response'.args.author_id
                   /\ author' = (author \ {a}) \cup {[id |-> a.id, name |-> response'.args.name]}
                   /\ {b \in book' : b.author_id = a.id} = {b \in book : b.author_id = a.id}
             /\ book' = book
       /\ \A b \in book : \A c \in book' : b.id = c.id => b.author_id = c.author_id]_vars

(* update_book rewrote a row while two authors are stored.                 *)
UpdateOneScalarWitness ==
    /\ response.op = "update_book"
    /\ tx.dirty # {}
    /\ response.ret # None
    /\ Cardinality(author) = 2

(* C9: add_author(name), for every name, stores and returns an author with *)
(* a new id, that name and no books, contained in get_authors; a           *)
(* get_author on that id issued next returns the same name and no books.   *)
AddAuthorRoundTrip ==
    [][/\ response'.op = "add_author"
          => \E a \in author' :
                /\ a.id \notin StoredAuthorIds
                /\ author' = author \cup {a}
                /\ a.name = response'.args.name
                /\ response'.ret = {[id |-> a.id, name |-> response'.args.name, books |-> {}]}
                /\ response'.ret \subseteq {Author(book', x) : x \in author'}
       /\ (/\ response.op = "add_author"
           /\ response'.op = "get_author"
           /\ \E v \in response.ret : v.id = response'.args.author_id)
          => response'.ret =
                {[id |-> response'.args.author_id, name |-> response.args.name, books |-> {}]}]_vars

(* add_author stored the empty name while books of another author exist.   *)
AddAuthorRoundTripWitness ==
    /\ response.op = "add_author"
    /\ response.args.name = ""
    /\ \E a \in author : a.name = "" /\ a.id = issued_authors
    /\ book # {}

-----------------------------------------------------------------------------
(* Properties of add_book and delete_author in flight together (SpecConc). *)

(* C10: in every interleaving of the steps of an add_book and a            *)
(* delete_author request, no committed Book is left whose author_id is the *)
(* id of no stored Author.                                                 *)
NoDanglingBookUnderInterleaving ==
    \A b \in book : b.author_id \in {a.id : a \in author}

====
